---------------------------- MODULE Spec2Model ----------------------------
(***************************************************************************)
(* The text (str) type of the VM, vm/src/obj/objstr.rs.                    *)
(*                                                                         *)
(* A text content is a Rust String: valid UTF-8.  It is modelled as the    *)
(* sequence of its decoded characters (code points); its storage units are *)
(* the UTF-8 bytes of those characters, so String::len and every byte      *)
(* index (value[a..b], split_at) are computed over the encoded widths.     *)
(* A heap of objects stands for the PyObjectRef graph; a reference is an   *)
(* index into it.  A panic ends the process.                               *)
(***************************************************************************)
EXTENDS Integers, Sequences, FiniteSets, TLC

VARIABLES heap, call, ret, pc

vars == <<heap, call, ret, pc>>

(***************************************************************************)
(* Bounds of the model.                                                    *)
(***************************************************************************)
MaxLen == 1
MaxHeap == 3
MaxReprLen == 3
MaxDigitLen == 2
MaxTitleLen == 4
MaxSliceLen == 3
MaxCount == 3

(***************************************************************************)
(* Characters.                                                             *)
(***************************************************************************)
SQ == 39
DQ == 34
BSLASH == 92
LF == 10
TAB == 9
CR == 13
SPACE == 32

\* The encoded width of a character: char::len_utf8.
Utf8Len(c) == IF c < 128 THEN 1 ELSE IF c < 2048 THEN 2 ELSE IF c < 65536 THEN 3 ELSE 4

RECURSIVE ByteLen(_)
\* str::len: the number of bytes of the encoded content.
ByteLen(s) == IF s = <<>> THEN 0 ELSE Utf8Len(Head(s)) + ByteLen(Tail(s))

\* The byte offset at which character i (1-based) of s starts.
ByteStart(s, i) == ByteLen(SubSeq(s, 1, i - 1))

\* str::is_char_boundary: 0, len, or the first byte of a character.
IsCharBoundary(s, b) ==
    \/ b = 0
    \/ b = ByteLen(s)
    \/ \E i \in 1..Len(s) : ByteStart(s, i) = b

\* The characters of s whose first byte lies in [a, b).
CharsIn(s, a, b) ==
    LET idx == {i \in 1..Len(s) : ByteStart(s, i) >= a /\ ByteStart(s, i) < b}
    IN  IF idx = {} THEN <<>>
        ELSE SubSeq(s, CHOOSE i \in idx : \A j \in idx : i <= j,
                       CHOOSE i \in idx : \A j \in idx : j <= i)

\* Index<Range<usize>> for str, s[a..b]: panics unless a <= b <= len and both
\* ends are character boundaries.
ByteSlice(s, a, b) ==
    IF a <= b /\ b <= ByteLen(s) /\ IsCharBoundary(s, a) /\ IsCharBoundary(s, b)
    THEN [ok |-> TRUE, v |-> CharsIn(s, a, b)]
    ELSE [ok |-> FALSE, v |-> <<>>]

\* char::is_lowercase / is_uppercase / is_alphabetic / is_numeric /
\* is_whitespace / is_digit(10), over ASCII, Latin-1 and the superscripts.
IsLowercase(c) ==
    \/ c \in 97..122
    \/ c \in {170, 181, 186}
    \/ c \in 223..246
    \/ c \in 248..255

IsUppercase(c) == c \in 65..90 \/ c \in 192..214 \/ c \in 216..222

IsAlphabetic(c) == IsLowercase(c) \/ IsUppercase(c)

IsNumeric(c) ==
    \/ c \in 48..57
    \/ c \in {178, 179, 185, 188, 189, 190}
    \/ c = 8304
    \/ c \in 8308..8313

IsAlphanumeric(c) == IsAlphabetic(c) \/ IsNumeric(c)

IsWhitespace(c) == c \in 9..13 \/ c \in {32, 133, 160}

IsDigit10(c) == c \in 48..57

\* char::to_uppercase: the upper-case mapping, which may be several characters.
CharToUpper(c) ==
    IF c \in 97..122 THEN <<c - 32>>
    ELSE IF c = 223 THEN <<83, 83>>
    ELSE IF c = 181 THEN <<924>>
    ELSE IF c = 255 THEN <<376>>
    ELSE IF c \in 224..254 /\ c # 247 THEN <<c - 32>>
    ELSE <<c>>

\* char::to_lowercase.
CharToLower(c) ==
    IF c \in 65..90 THEN <<c + 32>>
    ELSE IF c \in 192..222 /\ c # 215 THEN <<c + 32>>
    ELSE <<c>>

\* char::to_ascii_uppercase / to_ascii_lowercase: only ASCII letters change.
ToAsciiUpper(c) == IF c \in 97..122 THEN c - 32 ELSE c

ToAsciiLower(c) == IF c \in 65..90 THEN c + 32 ELSE c

\* str::to_uppercase / to_lowercase.
RECURSIVE ToUppercase(_)
ToUppercase(s) ==
    IF s = <<>> THEN <<>> ELSE CharToUpper(Head(s)) \o ToUppercase(Tail(s))

RECURSIVE ToLowercase(_)
ToLowercase(s) ==
    IF s = <<>> THEN <<>> ELSE CharToLower(Head(s)) \o ToLowercase(Tail(s))


(***************************************************************************)
(* Integers of the runtime are arbitrary-precision (BigInt).  One is held  *)
(* as two limbs, hi * 65536 + lo with lo in 0..65535, so that values past  *)
(* the 32-bit range can be told from those within it.                      *)
(***************************************************************************)
Limb == 2 ^ 16

\* ToBigInt of a machine integer n.
Big(n) == [hi |-> n \div Limb, lo |-> n % Limb]

\* BigInt::to_i32: None outside the 32-bit range.
to_i32(b) == IF b.hi >= -32768 /\ b.hi <= 32767 THEN <<b.hi * Limb + b.lo>> ELSE <<>>

BigNeg(b) == IF b.lo = 0 THEN [hi |-> 0 - b.hi, lo |-> 0] ELSE [hi |-> 0 - b.hi - 1, lo |-> Limb - b.lo]

RECURSIVE BigDigits(_)
\* The decimal digits of a BigInt b >= 0, by long division of the limbs.
BigDigits(b) ==
    LET r == b.hi % 10
        q == [hi |-> b.hi \div 10, lo |-> (r * Limb + b.lo) \div 10]
        d == (r * Limb + b.lo) % 10
    IN  IF q.hi = 0 /\ q.lo = 0 THEN <<48 + d>> ELSE Append(BigDigits(q), 48 + d)

\* Display for BigInt.
BigToString(b) == IF b.hi < 0 THEN <<45>> \o BigDigits(BigNeg(b)) ELSE BigDigits(b)

(***************************************************************************)
(* Objects.  Every object is a record of the same shape; kind is the       *)
(* discriminant of PyObjectKind.  An optional integer is <<>> or <<n>>.    *)
(***************************************************************************)
NoSlice == [start |-> <<>>, stop |-> <<>>, step |-> <<>>]

StrObj(v) == [kind |-> "str", str |-> v, int |-> Big(0), slice |-> NoSlice, items |-> <<>>]

IntObj(b) == [kind |-> "int", str |-> <<>>, int |-> b, slice |-> NoSlice, items |-> <<>>]

BoolObj(b) ==
    [kind |-> "bool", str |-> <<>>, int |-> IF b THEN Big(1) ELSE Big(0), slice |-> NoSlice,
     items |-> <<>>]

NoneObj == [kind |-> "none", str |-> <<>>, int |-> Big(0), slice |-> NoSlice, items |-> <<>>]

SliceObj(a, b, c) ==
    [kind |-> "slice", str |-> <<>>, int |-> Big(0),
     slice |-> [start |-> a, stop |-> b, step |-> c], items |-> <<>>]

ListObj(refs) == [kind |-> "list", str |-> <<>>, int |-> Big(0), slice |-> NoSlice, items |-> refs]

\* Results of a bound operation: PyResult, or the process aborting.
Ok(r) == [tag |-> "Ok", ref |-> r]

TypeError == [tag |-> "TypeError", ref |-> 0]

Panic == [tag |-> "Panic", ref |-> 0]

NoRet == [tag |-> "None", ref |-> 0]

\* The runtime's constructors: a new object, and the reference to it.
new_str(h, v) == [heap |-> Append(h, StrObj(v)), ret |-> Ok(Len(h) + 1)]

new_int(h, b) == [heap |-> Append(h, IntObj(b)), ret |-> Ok(Len(h) + 1)]

new_bool(h, b) == [heap |-> Append(h, BoolObj(b)), ret |-> Ok(Len(h) + 1)]

\* vm.ctx.new_list of freshly made texts, as str_split builds it.
new_list(h, elements) ==
    LET n == Len(elements)
        objs == [i \in 1..n |-> StrObj(elements[i])]
        refs == [i \in 1..n |-> Len(h) + i]
    IN  [heap |-> (h \o objs) \o <<ListObj(refs)>>, ret |-> Ok(Len(h) + n + 1)]

\* An operation that allocates nothing.
Fails(h, r) == [heap |-> h, ret |-> r]

\* objtype::isinstance: the kind check.
isinstance(h, r, kind) == h[r].kind = kind

\* arg_check!: the number of arguments, and the kind of each one the
\* operation constrains ("any" where the macro is given None).
arg_check(h, args, required) ==
    /\ Len(args) = Len(required)
    /\ \A i \in 1..Len(required) : required[i] = "any" \/ isinstance(h, args[i], required[i])

\* get_value: a copy of the content of a text object; any other kind panics.
get_value(h, r) == h[r].str

(***************************************************************************)
(* Helpers of the standard library used by the operations.                 *)
(***************************************************************************)
RECURSIVE SeqLess(_, _)
\* Ord for str: lexicographic over the encoded bytes, which for UTF-8 is
\* lexicographic over the code points.
SeqLess(x, y) ==
    IF y = <<>> THEN FALSE
    ELSE IF x = <<>> THEN TRUE
    ELSE IF Head(x) # Head(y) THEN Head(x) < Head(y)
    ELSE SeqLess(Tail(x), Tail(y))

RECURSIVE Repeat(_, _)
\* for _x in 0..n { result.push_str(s) }: nothing when n <= 0.
Repeat(s, n) == IF n <= 0 THEN <<>> ELSE s \o Repeat(s, n - 1)

StartsWith(s, p) == Len(p) <= Len(s) /\ SubSeq(s, 1, Len(p)) = p

EndsWith(s, p) == Len(p) <= Len(s) /\ SubSeq(s, Len(s) - Len(p) + 1, Len(s)) = p

\* str::contains with a str pattern.
Contains(s, p) == \E i \in 0..(Len(s) - Len(p)) : SubSeq(s, i + 1, i + Len(p)) = p

RECURSIVE TrimLeft(_)
\* str::trim_left / trim_right / trim: white space off the ends.
TrimLeft(s) == IF s # <<>> /\ IsWhitespace(Head(s)) THEN TrimLeft(Tail(s)) ELSE s

RECURSIVE TrimRight(_)
TrimRight(s) ==
    IF s # <<>> /\ IsWhitespace(s[Len(s)]) THEN TrimRight(SubSeq(s, 1, Len(s) - 1)) ELSE s

Trim(s) == TrimRight(TrimLeft(s))

RECURSIVE SplitFrom(_, _, _)
\* The pieces of s between the matches of a non-empty pattern, found left to
\* right without overlap; cur is the piece being read.
SplitFrom(s, pat, cur) ==
    IF Len(s) < Len(pat) THEN <<cur \o s>>
    ELSE IF SubSeq(s, 1, Len(pat)) = pat
         THEN <<cur>> \o SplitFrom(SubSeq(s, Len(pat) + 1, Len(s)), pat, <<>>)
         ELSE SplitFrom(Tail(s), pat, Append(cur, Head(s)))

\* str::split: the empty pattern matches at every character boundary.
Split(s, pat) ==
    IF pat = <<>> THEN (<< <<>> >> \o [i \in 1..Len(s) |-> <<s[i]>>]) \o << <<>> >>
    ELSE SplitFrom(s, pat, <<>>)

RECURSIVE Join(_, _)
\* [String]::join(sep).
Join(words, sep) ==
    IF words = <<>> THEN <<>>
    ELSE IF Len(words) = 1 THEN words[1]
    ELSE (words[1] \o sep) \o Join(Tail(words), sep)

RECURSIVE StepBy(_, _)
\* Iterator::step_by(step): the first element, then every step-th one.
StepBy(s, step) ==
    IF s = <<>> THEN <<>>
    ELSE <<Head(s)>> \o StepBy(SubSeq(s, step + 1, Len(s)), step)

RECURSIVE Fold(_, _, _)
Fold(s, acc, m) ==
    IF s = <<>> THEN (acc * m + 255) % Limb ELSE Fold(Tail(s), (acc * m + (Head(s) % Limb)) % Limb, m)

\* DefaultHasher over the content, widened to a BigInt: the standard
\* library's SipHash is not reproduced bit for bit; a deterministic,
\* order-sensitive fold of the content into two limbs stands for it.
HashOf(s) == [hi |-> Fold(s, 7, 33), lo |-> Fold(s, 0, 31)]

(***************************************************************************)
(* The bound operations.  Each takes the heap and args.args (references)   *)
(* and gives the heap after the call and what the call returned.           *)
(***************************************************************************)
\* The exponents 0-9 that str_isdigit accepts beside the ASCII digits.
VALID_UNICODES == {8304, 185, 178, 179, 8308, 8309, 8310, 8311, 8312, 8313}

\* str_eq refusing an operand that is no text, as str_add does.
str_eq_strict(h, args) ==
    IF ~arg_check(h, args, <<"str", "any">>) THEN Fails(h, TypeError)
    ELSE LET a == args[1]
             b == args[2]
         IN  IF isinstance(h, b, "str")
             THEN new_bool(h, get_value(h, a) = get_value(h, b))
             ELSE Fails(h, TypeError)

str_eq(h, args) ==
    IF ~arg_check(h, args, <<"str", "any">>) THEN Fails(h, TypeError)
    ELSE LET a == args[1]
             b == args[2]
             result == IF isinstance(h, b, "str")
                       THEN get_value(h, a) = get_value(h, b)
                       ELSE FALSE
         IN  new_bool(h, result)

str_gt(h, args) ==
    IF ~arg_check(h, args, <<"str", "str">>) THEN Fails(h, TypeError)
    ELSE LET zelf == get_value(h, args[1])
             other == get_value(h, args[2])
         IN  new_bool(h, SeqLess(other, zelf))

\* Ok(s.clone()): a clone of the reference, the same object.
str_str(h, args) ==
    IF ~arg_check(h, args, <<"str">>) THEN Fails(h, TypeError)
    ELSE [heap |-> h, ret |-> Ok(args[1])]

count_char(s, c) == Cardinality({i \in 1..Len(s) : s[i] = c})

\* The delimiter picked with >= in place of >.
quote_char_ge(value) == IF count_char(value, SQ) >= count_char(value, DQ) THEN DQ ELSE SQ

\* The delimiter str_repr picks.
quote_char(value) == IF count_char(value, SQ) > count_char(value, DQ) THEN DQ ELSE SQ

\* The escaping without the backslash case.
escape_no_backslash(c, q) ==
    IF c = q THEN <<BSLASH, c>>
    ELSE IF c = LF THEN <<BSLASH, 110>>
    ELSE IF c = TAB THEN <<BSLASH, 116>>
    ELSE IF c = CR THEN <<BSLASH, 114>>
    ELSE <<c>>

\* What str_repr pushes for one character c under the delimiter q.
escape(c, q) ==
    IF c = q \/ c = BSLASH THEN <<BSLASH, c>>
    ELSE IF c = LF THEN <<BSLASH, 110>>
    ELSE IF c = TAB THEN <<BSLASH, 116>>
    ELSE IF c = CR THEN <<BSLASH, 114>>
    ELSE <<c>>

RECURSIVE escape_all(_, _)
escape_all(s, q) == IF s = <<>> THEN <<>> ELSE escape(Head(s), q) \o escape_all(Tail(s), q)

\* The text str_repr builds.
formatted(value) ==
    LET q == quote_char(value) IN (<<q>> \o escape_all(value, q)) \o <<q>>

str_repr(h, args) ==
    IF ~arg_check(h, args, <<"str">>) THEN Fails(h, TypeError)
    ELSE new_str(h, formatted(get_value(h, args[1])))

str_add(h, args) ==
    IF ~arg_check(h, args, <<"str", "any">>) THEN Fails(h, TypeError)
    ELSE LET s == args[1]
             s2 == args[2]
         IN  IF isinstance(h, s2, "str")
             THEN new_str(h, get_value(h, s) \o get_value(h, s2))
             ELSE Fails(h, TypeError)

str_hash(h, args) ==
    IF ~arg_check(h, args, <<"str">>) THEN Fails(h, TypeError)
    ELSE new_int(h, HashOf(get_value(h, args[1])))

\* String::len of the sliceable sequence: the number of bytes.
len(s) == ByteLen(s)

str_len(h, args) ==
    IF ~arg_check(h, args, <<"str">>) THEN Fails(h, TypeError)
    ELSE new_int(h, Big(len(get_value(h, args[1]))))

str_mul(h, args) ==
    IF ~arg_check(h, args, <<"str", "any">>) THEN Fails(h, TypeError)
    ELSE LET s == args[1]
             s2 == args[2]
         IN  IF isinstance(h, s2, "int")
             THEN LET value1 == get_value(h, s)
                      value2 == to_i32(h[s2].int)
                  IN  IF value2 = <<>> THEN Fails(h, Panic)
                      ELSE new_str(h, Repeat(value1, value2[1]))
             ELSE Fails(h, TypeError)

\* str_upper writing the upper-cased content into the receiver.
str_upper_in_place(h, args) ==
    IF ~arg_check(h, args, <<"str">>) THEN Fails(h, TypeError)
    ELSE [heap |-> [h EXCEPT ![args[1]].str = ToUppercase(@)], ret |-> Ok(args[1])]

str_upper(h, args) ==
    IF ~arg_check(h, args, <<"str">>) THEN Fails(h, TypeError)
    ELSE new_str(h, ToUppercase(get_value(h, args[1])))

str_lower(h, args) ==
    IF ~arg_check(h, args, <<"str">>) THEN Fails(h, TypeError)
    ELSE new_str(h, ToLowercase(get_value(h, args[1])))

\* value.split_at(1) panics unless byte 1 is a character boundary of value.
str_capitalize(h, args) ==
    IF ~arg_check(h, args, <<"str">>) THEN Fails(h, TypeError)
    ELSE LET value == get_value(h, args[1])
             first_part == ByteSlice(value, 0, 1)
             lower_str == ByteSlice(value, 1, len(value))
         IN  IF ~first_part.ok THEN Fails(h, Panic)
             ELSE new_str(h, ToUppercase(first_part.v) \o lower_str.v)

str_split(h, args) ==
    IF ~arg_check(h, args, <<"str", "str">>) THEN Fails(h, TypeError)
    ELSE new_list(h, Split(get_value(h, args[1]), get_value(h, args[2])))

str_strip(h, args) ==
    IF ~arg_check(h, args, <<"str">>) THEN Fails(h, TypeError)
    ELSE new_str(h, Trim(get_value(h, args[1])))

str_lstrip(h, args) ==
    IF ~arg_check(h, args, <<"str">>) THEN Fails(h, TypeError)
    ELSE new_str(h, TrimLeft(get_value(h, args[1])))

str_rstrip(h, args) ==
    IF ~arg_check(h, args, <<"str">>) THEN Fails(h, TypeError)
    ELSE new_str(h, TrimRight(get_value(h, args[1])))

str_endswith(h, args) ==
    IF ~arg_check(h, args, <<"str", "str">>) THEN Fails(h, TypeError)
    ELSE new_bool(h, EndsWith(get_value(h, args[1]), get_value(h, args[2])))

swap(c) ==
    IF IsLowercase(c) THEN ToAsciiUpper(c)
    ELSE IF IsUppercase(c) THEN ToAsciiLower(c)
    ELSE c

str_swapcase(h, args) ==
    IF ~arg_check(h, args, <<"str">>) THEN Fails(h, TypeError)
    ELSE LET value == get_value(h, args[1])
         IN  new_str(h, [i \in 1..Len(value) |-> swap(value[i])])

\* The closure str_title maps over the words.
title_word(w) ==
    IF w = <<>> THEN <<>> ELSE CharToUpper(Head(w)) \o ToLowercase(Tail(w))

\* The title built from split_whitespace: the empty words are dropped.
titled_str_whitespace(value) ==
    LET words == SelectSeq(Split(value, <<SPACE>>), LAMBDA w : w # <<>>)
    IN  Join([i \in 1..Len(words) |-> title_word(words[i])], <<SPACE>>)

\* value.split(' ').map(..).collect::<Vec<_>>().join(" ")
titled_str(value) ==
    LET words == Split(value, <<SPACE>>)
    IN  Join([i \in 1..Len(words) |-> title_word(words[i])], <<SPACE>>)

str_title(h, args) ==
    IF ~arg_check(h, args, <<"str">>) THEN Fails(h, TypeError)
    ELSE new_str(h, titled_str(get_value(h, args[1])))

str_startswith(h, args) ==
    IF ~arg_check(h, args, <<"str", "str">>) THEN Fails(h, TypeError)
    ELSE new_bool(h, StartsWith(get_value(h, args[1]), get_value(h, args[2])))

str_contains(h, args) ==
    IF ~arg_check(h, args, <<"str", "str">>) THEN Fails(h, TypeError)
    ELSE new_bool(h, Contains(get_value(h, args[1]), get_value(h, args[2])))

str_isalnum(h, args) ==
    IF ~arg_check(h, args, <<"str">>) THEN Fails(h, TypeError)
    ELSE LET value == get_value(h, args[1])
         IN  new_bool(h, \A i \in 1..Len(value) : IsAlphanumeric(value[i]))

str_isalpha(h, args) ==
    IF ~arg_check(h, args, <<"str">>) THEN Fails(h, TypeError)
    ELSE LET value == get_value(h, args[1])
         IN  new_bool(h, \A i \in 1..Len(value) : IsAlphabetic(value[i]))

\* c as u16 keeps the low 16 bits of the code point.
char_as_uni(c) == c % 65536

\* The loop of str_isdigit: false at the first character that is neither an
\* ASCII digit nor, cut to 16 bits, one of VALID_UNICODES.
is_digit(value) ==
    \A i \in 1..Len(value) : IsDigit10(value[i]) \/ char_as_uni(value[i]) \in VALID_UNICODES

str_isdigit(h, args) ==
    IF ~arg_check(h, args, <<"str">>) THEN Fails(h, TypeError)
    ELSE new_bool(h, is_digit(get_value(h, args[1])))

(***************************************************************************)
(* Indexing and slicing.                                                   *)
(***************************************************************************)
\* impl PySliceableSequence for String.
do_slice(s, start, stop) == ByteSlice(s, start, stop)

\* self[start..stop].chars().step_by(step).collect(); step_by(0) panics.
do_stepped_slice(s, start, stop, step) ==
    LET part == ByteSlice(s, start, stop)
    IN  IF ~part.ok \/ step = 0 THEN [ok |-> FALSE, v |-> <<>>]
        ELSE [ok |-> TRUE, v |-> StepBy(part.v, step)]

\* The resolver's index rule: <<absolute index>>, or <<>> for IndexOutOfRange.
get_pos(length, p) ==
    IF p >= 0 THEN (IF p < length THEN <<p>> ELSE <<>>)
    ELSE (IF length + p >= 0 THEN <<length + p>> ELSE <<>>)

Clamp(x, lo, hi) == IF x < lo THEN lo ELSE IF x > hi THEN hi ELSE x

\* The resolver's slice rule: bounds relative to the length when negative,
\* clamped into [0, length], start <= stop; <<>> when the step is not positive.
resolve_slice(length, sl) ==
    LET step == IF sl.step = <<>> THEN 1 ELSE sl.step[1]
        rel(x) == IF x < 0 THEN length + x ELSE x
        start == IF sl.start = <<>> THEN 0 ELSE Clamp(rel(sl.start[1]), 0, length)
        stop0 == IF sl.stop = <<>> THEN length ELSE Clamp(rel(sl.stop[1]), 0, length)
        stop == IF stop0 < start THEN start ELSE stop0
    IN  IF step <= 0 THEN <<>> ELSE <<start, stop, step>>

\* The resolver over a text: the contiguous copy for step 1, else the
\* stepped copy.
get_slice_items(s, sl) ==
    LET r == resolve_slice(len(s), sl)
    IN  IF r = <<>> THEN [ok |-> FALSE, v |-> <<>>]
        ELSE IF r[3] = 1 THEN do_slice(s, r[1], r[2])
        ELSE do_stepped_slice(s, r[1], r[2], r[3])

\* The outcomes of subscript.  get_pos hands back a plain index: the call
\* has no error branch, so where the resolver finds the index out of range
\* the call either aborts or goes on with some index.
subscript(h, value, b) ==
    IF isinstance(h, b, "int")
    THEN LET pos == to_i32(h[b].int)
             r == IF pos = <<>> THEN <<>> ELSE get_pos(len(value), pos[1])
             idxs == IF pos = <<>> THEN {}
                     ELSE IF r # <<>> THEN {r[1]}
                     ELSE 0..len(value)
             at(idx) == ByteSlice(value, idx, idx + 1)
         IN  {IF at(idx).ok THEN new_str(h, at(idx).v) ELSE Fails(h, Panic) : idx \in idxs}
             \cup (IF r = <<>> THEN {Fails(h, Panic)} ELSE {})
    ELSE IF h[b].kind = "slice"
         THEN LET items == get_slice_items(value, h[b].slice)
              IN  {IF items.ok THEN new_str(h, items.v) ELSE Fails(h, Panic)}
         ELSE {Fails(h, Panic)}

str_getitem(h, args) ==
    IF ~arg_check(h, args, <<"str", "any">>) THEN {Fails(h, TypeError)}
    ELSE subscript(h, get_value(h, args[1]), args[2])

\* vm.to_str: the generic conversion to text.  A text converts to itself
\* (to_text); integers, booleans and None to their usual spelling.
to_str(h, r) ==
    LET o == h[r]
    IN  IF o.kind = "str" THEN str_str(h, <<r>>)
        ELSE IF o.kind = "int"
             THEN new_str(h, BigToString(o.int))
        ELSE IF o.kind = "bool"
             THEN new_str(h, IF o.int = Big(1) THEN <<84, 114, 117, 101>>
                             ELSE <<70, 97, 108, 115, 101>>)
        ELSE new_str(h, <<78, 111, 110, 101>>)

\* args.args of str_new starts with the type object; nargs counts it too and
\* extra holds the references that follow it.
str_new(h, extra) ==
    LET nargs == 1 + Len(extra)
    IN  IF nargs = 1 THEN new_str(h, <<>>)
        ELSE IF nargs > 2 THEN Fails(h, Panic)
        ELSE to_str(h, extra[1])

(***************************************************************************)
(* The state machine: the runtime looks an operation up in the table that  *)
(* init builds and calls it with a text receiver and arguments from the    *)
(* heap.  What the call allocates is added to the heap; a panic ends the   *)
(* process.                                                                *)
(***************************************************************************)
\* All texts over the alphabet A of at most n characters.
TextsOver(A, n) == UNION {[1..k -> A] : k \in 0..n}

\* A one-byte and a two-byte character.
Alphabet == {97, 233}

Texts == TextsOver(Alphabet, MaxLen)

\* Small integers, and 2^31, the first one past the 32-bit range.
IntArgs == {Big(n) : n \in -1..2} \cup {[hi |-> 32768, lo |-> 0]}

SliceArgs ==
    {SliceObj(a, <<>>, c) : a \in {<<>>, <<1>>}, c \in {<<>>, <<2>>, <<0>>}}

Operands ==
    {StrObj(s) : s \in Texts} \cup {IntObj(b) : b \in IntArgs} \cup {NoneObj} \cup SliceArgs

Refs == 1..Len(heap)

StrRefs == {r \in Refs : heap[r].kind = "str"}

\* The kinds vm.to_str is modelled for.
Convertible == {r \in Refs : heap[r].kind \in {"str", "int", "bool", "none"}}

Invoke(name, args, r) ==
    /\ pc = "ready"
    /\ Len(heap) < MaxHeap
    /\ heap' = r.heap
    /\ ret' = r.ret
    /\ call' = [op |-> name, args |-> args]
    /\ pc' = IF r.ret.tag = "Panic" THEN "panicked" ELSE "ready"

Add ==
    \E s \in StrRefs, b \in Refs : Invoke("__add__", <<s, b>>, str_add(heap, <<s, b>>))

Eq ==
    \E s \in StrRefs, b \in Refs : Invoke("__eq__", <<s, b>>, str_eq(heap, <<s, b>>))

ContainsOp ==
    \E s \in StrRefs, b \in Refs : Invoke("__contains__", <<s, b>>, str_contains(heap, <<s, b>>))

Getitem ==
    \E s \in StrRefs, b \in Refs :
        \E r \in str_getitem(heap, <<s, b>>) : Invoke("__getitem__", <<s, b>>, r)

Gt ==
    \E s \in StrRefs, b \in Refs : Invoke("__gt__", <<s, b>>, str_gt(heap, <<s, b>>))

Hash == \E s \in StrRefs : Invoke("__hash__", <<s>>, str_hash(heap, <<s>>))

LenOp == \E s \in StrRefs : Invoke("__len__", <<s>>, str_len(heap, <<s>>))

\* The count of copies is capped: a larger one only builds a longer text.
Mul ==
    \E s \in StrRefs, b \in Refs :
        /\ IF heap[b].kind = "int" /\ to_i32(heap[b].int) # <<>>
           THEN to_i32(heap[b].int)[1] <= MaxCount
           ELSE TRUE
        /\ Invoke("__mul__", <<s, b>>, str_mul(heap, <<s, b>>))

\* The arguments after the type object: none, one, or one too many.
NewArgs ==
    ({<<>>} \cup {<<x>> : x \in Convertible}) \cup {<<x, y>> : x \in Convertible, y \in Refs}

New == \E extra \in NewArgs : Invoke("__new__", extra, str_new(heap, extra))

Str == \E s \in StrRefs : Invoke("__str__", <<s>>, str_str(heap, <<s>>))

Repr == \E s \in StrRefs : Invoke("__repr__", <<s>>, str_repr(heap, <<s>>))

Lower == \E s \in StrRefs : Invoke("lower", <<s>>, str_lower(heap, <<s>>))

Upper == \E s \in StrRefs : Invoke("upper", <<s>>, str_upper(heap, <<s>>))

Capitalize == \E s \in StrRefs : Invoke("capitalize", <<s>>, str_capitalize(heap, <<s>>))

SplitOp ==
    \E s \in StrRefs, b \in Refs : Invoke("split", <<s, b>>, str_split(heap, <<s, b>>))

Strip == \E s \in StrRefs : Invoke("strip", <<s>>, str_strip(heap, <<s>>))

Lstrip == \E s \in StrRefs : Invoke("lstrip", <<s>>, str_lstrip(heap, <<s>>))

Rstrip == \E s \in StrRefs : Invoke("rstrip", <<s>>, str_rstrip(heap, <<s>>))

Endswith ==
    \E s \in StrRefs, b \in Refs : Invoke("endswith", <<s, b>>, str_endswith(heap, <<s, b>>))

Startswith ==
    \E s \in StrRefs, b \in Refs : Invoke("startswith", <<s, b>>, str_startswith(heap, <<s, b>>))

Title == \E s \in StrRefs : Invoke("title", <<s>>, str_title(heap, <<s>>))

Swapcase == \E s \in StrRefs : Invoke("swapcase", <<s>>, str_swapcase(heap, <<s>>))

Isalnum == \E s \in StrRefs : Invoke("isalnum", <<s>>, str_isalnum(heap, <<s>>))

Isalpha == \E s \in StrRefs : Invoke("isalpha", <<s>>, str_isalpha(heap, <<s>>))

Isdigit == \E s \in StrRefs : Invoke("isdigit", <<s>>, str_isdigit(heap, <<s>>))

NoCall == [op |-> "", args |-> <<>>]

Init ==
    /\ heap \in {<<StrObj(s)>> : s \in Texts} \cup {<<StrObj(s), o>> : s \in Texts, o \in Operands}
    /\ call = NoCall
    /\ ret = NoRet
    /\ pc = "ready"

Next ==
    \/ Add
    \/ Eq
    \/ ContainsOp
    \/ Getitem
    \/ Gt
    \/ Hash
    \/ LenOp
    \/ Mul
    \/ New
    \/ Str
    \/ Repr
    \/ Lower
    \/ Upper
    \/ Capitalize
    \/ SplitOp
    \/ Strip
    \/ Lstrip
    \/ Rstrip
    \/ Endswith
    \/ Startswith
    \/ Title
    \/ Swapcase
    \/ Isalnum
    \/ Isalpha
    \/ Isdigit

Spec == Init /\ [][Next]_vars

(***************************************************************************)
(* The same machine over the inputs each group of properties is about.     *)
(***************************************************************************)
Start(texts) ==
    /\ heap \in {<<StrObj(s)>> : s \in texts}
    /\ call = NoCall
    /\ ret = NoRet
    /\ pc = "ready"

\* Both quotes, the backslash, the three escaped controls, and the letters
\* n and a.
ReprAlphabet == {SQ, DQ, BSLASH, LF, TAB, CR, 110, 97}

InitRepr == Start(TextsOver(ReprAlphabet, MaxReprLen))

SpecRepr == InitRepr /\ [][Repr]_vars

\* 5, a, superscripts 1, 0 and 9, the Arabic-Indic digit three, and two
\* characters past U+FFFF whose low 16 bits are those of superscripts 2 and 0.
DigitAlphabet == {53, 97, 185, 8304, 8313, 1635, 65714, 73840}

InitDigit == Start(TextsOver(DigitAlphabet, MaxDigitLen))

SpecDigit == InitDigit /\ [][Isdigit]_vars

\* a, B, the space, and the sharp s, whose upper case is two characters.
TitleAlphabet == {97, 66, SPACE, 223}

InitTitle == Start(TextsOver(TitleAlphabet, MaxTitleLen))

SpecTitle == InitTitle /\ [][Title]_vars

\* The capabilities the resolver calls, with bounds it has resolved:
\* 0 <= start <= stop <= length and step >= 1.  A slice that does not fall
\* on character boundaries panics.
Sliced(r) == IF r.ok THEN new_str(heap, r.v) ELSE Fails(heap, Panic)

DoSlice ==
    \E s \in StrRefs :
        \E start \in 0..len(heap[s].str) :
            \E stop \in start..len(heap[s].str) :
                Invoke("do_slice", <<s, start, stop>>, Sliced(do_slice(heap[s].str, start, stop)))

DoSteppedSlice ==
    \E s \in StrRefs :
        \E start \in 0..len(heap[s].str) :
            \E stop \in start..len(heap[s].str), step \in 1..2 :
                Invoke("do_stepped_slice", <<s, start, stop, step>>,
                       Sliced(do_stepped_slice(heap[s].str, start, stop, step)))

\* A one-byte, a two-byte and a three-byte character.
SliceAlphabet == {97, 233, 8364}

InitSlice == Start(TextsOver(SliceAlphabet, MaxSliceLen))

SpecSlice == InitSlice /\ [][DoSlice \/ DoSteppedSlice]_vars

(***************************************************************************)
(* Properties.  A property reads the last call (call), what it returned    *)
(* (ret) and the heap after it.                                            *)
(***************************************************************************)
\* The content of the receiver and of the operand of the last call, and of
\* the text it returned.
Receiver == heap[call.args[1]].str

Operand == heap[call.args[2]]

Returned == heap[ret.ref]

IsTrue(o) == o.kind = "bool" /\ o.int = Big(1)

IsFalse(o) == o.kind = "bool" /\ o.int = Big(0)

\* C1: equal(a, b) returns true exactly when b is a text with the content of
\* a; for b not a text it returns false, and it never returns an error or
\* faults.
C1_EqualIffSameContent ==
    call.op = "__eq__" =>
        /\ ret.tag = "Ok"
        /\ IF Operand.kind = "str" /\ Operand.str = Receiver
           THEN IsTrue(Returned)
           ELSE IsFalse(Returned)

\* equal was called with an integer operand and returned false.
C1_Witness ==
    /\ call.op = "__eq__"
    /\ Operand.kind = "int"
    /\ ret.tag = "Ok"
    /\ IsFalse(Returned)

RECURSIVE Unescape(_)
\* Decoding the escapes of a representation's body: a backslash with n, t
\* or r is newline, tab or carriage return, with anything else it is that
\* character.
Unescape(t) ==
    IF t = <<>> THEN <<>>
    ELSE IF Head(t) = BSLASH /\ Len(t) >= 2
         THEN <<CASE t[2] = 110 -> LF [] t[2] = 116 -> TAB [] t[2] = 114 -> CR [] OTHER -> t[2]>>
              \o Unescape(SubSeq(t, 3, Len(t)))
         ELSE <<Head(t)>> \o Unescape(Tail(t))

RECURSIVE HasUnescaped(_, _)
\* Whether q occurs in t outside an escape pair.
HasUnescaped(t, q) ==
    IF t = <<>> THEN FALSE
    ELSE IF Head(t) = BSLASH THEN (Len(t) < 2 \/ HasUnescaped(SubSeq(t, 3, Len(t)), q))
    ELSE Head(t) = q \/ HasUnescaped(Tail(t), q)

\* The representation without its first and last character.
Body(out) == SubSeq(out, 2, Len(out) - 1)

\* C2: stripping the first and last character of to_representation(s) and
\* decoding the escapes yields exactly s, and the chosen delimiter does not
\* occur unescaped between the opening and the closing delimiter.
C2_ReprRoundTrip ==
    call.op = "__repr__" =>
        /\ ret.tag = "Ok"
        /\ Returned.kind = "str"
        /\ Len(Returned.str) >= 2
        /\ Unescape(Body(Returned.str)) = Receiver
        /\ ~HasUnescaped(Body(Returned.str), Returned.str[1])

\* The representation of a text holding both quotes and a backslash.
C2_Witness ==
    /\ call.op = "__repr__"
    /\ ret.tag = "Ok"
    /\ {SQ, DQ, BSLASH} \subseteq {Receiver[i] : i \in 1..Len(Receiver)}

\* The number of occurrences of c in s.
Occurrences(s, c) == Cardinality({i \in 1..Len(s) : s[i] = c})

\* C9: to_representation(s) delimits with the double quote exactly when the
\* single quote occurs strictly more often in s than the double quote, and
\* with the single quote otherwise; the output starts and ends with the
\* delimiter, which never occurs more often in s than the other candidate.
C9_DelimiterChoice ==
    call.op = "__repr__" =>
        LET out == Returned.str
            nsq == Occurrences(Receiver, SQ)
            ndq == Occurrences(Receiver, DQ)
            q == out[1]
        IN  /\ ret.tag = "Ok"
            /\ Len(out) >= 2
            /\ out[Len(out)] = q
            /\ (q = DQ) <=> (nsq > ndq)
            /\ (q = SQ) <=> (nsq <= ndq)
            /\ Occurrences(Receiver, q) <= Occurrences(Receiver, IF q = SQ THEN DQ ELSE SQ)

\* A text with more single than double quotes, delimited by the double quote.
C9_Witness ==
    /\ call.op = "__repr__"
    /\ ret.tag = "Ok"
    /\ Occurrences(Receiver, SQ) > Occurrences(Receiver, DQ)
    /\ Occurrences(Receiver, DQ) > 0
    /\ Returned.str[1] = DQ

\* The value of a BigInt known to lie within the 32-bit range.
Small(b) == b.hi * Limb + b.lo

InI32(b) == to_i32(b) # <<>>

\* C3: getitem(s, i) with an integer i and L = length(s) returns the
\* one-element text at position i (L + i when i < 0) when -L <= i < L, and
\* the catchable IndexOutOfRange error for every other integer.
C3_GetitemIndex ==
    (call.op = "__getitem__" /\ Operand.kind = "int") =>
        LET L == len(Receiver)
            i == Operand.int
            p == IF Small(i) >= 0 THEN Small(i) ELSE L + Small(i)
        IN  IF InI32(i) /\ 0 - L <= Small(i) /\ Small(i) < L
            THEN /\ ret.tag = "Ok"
                 /\ Returned.kind = "str"
                 /\ Returned.str = CharsIn(Receiver, p, p + 1)
                 /\ Len(Returned.str) = 1
            ELSE ret.tag = "IndexError"

\* The operations the totality claim names.
TotalOps ==
    {"__add__", "__eq__", "__gt__", "__hash__", "__len__", "__mul__", "__str__", "__repr__",
     "lower", "upper", "capitalize", "split", "strip", "lstrip", "rstrip", "endswith",
     "startswith", "title", "swapcase", "isalnum", "isalpha", "isdigit", "__contains__",
     "__getitem__"}

\* C4: apart from getitem with an index that is neither an integer nor a
\* slice descriptor, every bound operation on a text receiver ends in a
\* value or in a catchable error, never in an unrecoverable fault.
C4_NeverFaults ==
    (/\ call.op \in TotalOps
     /\ call.op = "__getitem__" => Operand.kind \in {"int", "slice"})
        => ret.tag # "Panic"

\* The ten superscript digits, by their full code points.
SuperscriptDigits == {8304, 185, 178, 179} \cup 8308..8313

\* C5: isdigit(s) is true exactly when every character of s is an ASCII
\* digit or one of the ten superscript digits, judged by its full code
\* point.
C5_IsdigitExact ==
    call.op = "isdigit" =>
        /\ ret.tag = "Ok"
        /\ IsTrue(Returned) <=>
               \A i \in 1..Len(Receiver) :
                   Receiver[i] \in 48..57 \/ Receiver[i] \in SuperscriptDigits
        /\ IsTrue(Returned) \/ IsFalse(Returned)

\* C6: for every integer n >= 0, multiply(s, n) returns n copies of s, of
\* length length(s) * n; with an operand that is no integer it returns a
\* TypeMismatch error.
C6_Multiply ==
    call.op = "__mul__" =>
        IF Operand.kind = "int"
        THEN Operand.int.hi >= 0 =>
                 /\ ret.tag = "Ok"
                 /\ Returned.kind = "str"
                 /\ InI32(Operand.int) =>
                        /\ Returned.str = Repeat(Receiver, Small(Operand.int))
                        /\ len(Returned.str) = len(Receiver) * Small(Operand.int)
        ELSE ret.tag = "TypeError"

\* The pieces of s between its spaces, and those that are not empty.
Pieces(s) == Split(s, <<SPACE>>)

Words(s) == SelectSeq(Pieces(s), LAMBDA w : w # <<>>)

\* A word with its first character upper-cased and the rest lower-cased.
Cased(w) ==
    IF w = <<>> THEN <<>> ELSE CharToUpper(w[1]) \o ToLowercase(SubSeq(w, 2, Len(w)))

HasAdjacentSpaces(s) == \E i \in 1..(Len(s) - 1) : s[i] = SPACE /\ s[i + 1] = SPACE

\* C7 as stated: title(s) joins the cased words with single spaces, so
\* that runs of spaces are normalized: the result never holds two adjacent
\* spaces.
C7_TitleNormalizes ==
    call.op = "title" =>
        /\ ret.tag = "Ok"
        /\ ~HasAdjacentSpaces(Returned.str)

\* C7 as amended: title(s) cases each piece of s between two spaces, the
\* empty pieces included, and puts one space back where each space of s
\* was: the result has as many pieces and as many spaces as s, and a run of
\* spaces stays a run of spaces.
C7_TitleKeepsSpaces ==
    call.op = "title" =>
        LET out == Returned.str
        IN  /\ ret.tag = "Ok"
            /\ Returned.kind = "str"
            /\ Len(Pieces(out)) = Len(Pieces(Receiver))
            /\ \A i \in 1..Len(Pieces(Receiver)) : Pieces(out)[i] = Cased(Pieces(Receiver)[i])
            /\ Occurrences(out, SPACE) = Occurrences(Receiver, SPACE)
            /\ HasAdjacentSpaces(out) <=> HasAdjacentSpaces(Receiver)

\* The title of a text with a run of two spaces between two words.
C7_Witness ==
    /\ call.op = "title"
    /\ ret.tag = "Ok"
    /\ HasAdjacentSpaces(Receiver)
    /\ Len(Words(Receiver)) = 2
    /\ Returned.str # Receiver

\* C8: the stepped copy of s over [0, L) with step 2, L = length(s), holds
\* the elements at positions 0, 2, 4, ... in order, and its length by the
\* same measure is ceil(L / 2), whatever the content.
C8_SteppedLength ==
    (/\ call.op = "do_stepped_slice"
     /\ call.args[2] = 0
     /\ call.args[3] = len(Receiver)
     /\ call.args[4] = 2)
        => /\ ret.tag = "Ok"
           /\ Returned.str = [i \in 1..((Len(Receiver) + 1) \div 2) |-> Receiver[2 * i - 1]]
           /\ len(Returned.str) = (len(Receiver) + 1) \div 2

\* C10: an operation, also one that returns an error, leaves every object
\* that existed before it as it was; to_text returns the receiver itself,
\* and every other operation on a text receiver that returns a value
\* returns a new object.
C10_Frame ==
    [][/\ Len(heap') >= Len(heap)
       /\ \A r \in 1..Len(heap) : heap'[r] = heap[r]
       /\ (call'.op = "__str__" /\ ret'.tag = "Ok") => ret'.ref = call'.args[1]
       /\ (call'.op \in TotalOps \ {"__str__"} /\ ret'.tag = "Ok") => ret'.ref > Len(heap)]_vars

\* to_text on the second of two different texts returned that very object,
\* and both texts are as they were.
C10_Witness ==
    /\ call.op = "__str__"
    /\ ret.tag = "Ok"
    /\ ret.ref = 2
    /\ Len(heap) = 2
    /\ heap[1].kind = "str"
    /\ heap[2].kind = "str"
    /\ heap[2].str # heap[1].str

=============================================================================
